---------------------------- MODULE Spec2Model ----------------------------
(***************************************************************************)
(* A model of the LC-3 virtual machine of src/lc3.c: the register file,    *)
(* the memory array with its keyboard device, the fetch/decode/execute     *)
(* loop of main, the terminal set-up and the SIGINT handler.               *)
(*                                                                         *)
(* Words are 16 bits wide; every assignment to a uint16_t is modelled by   *)
(* U16 (reduction modulo 2^16).  The handlers that src/lc3.c leaves as     *)
(* placeholders (LD, LDI, LDR, LEA, ST, STI, STR, TRAP, bad opcode,        *)
(* shutdown) are modelled from sections 4.2, 4.3 and 7 of spec.md.         *)
(***************************************************************************)
EXTENDS Integers, Sequences, FiniteSets, TLC

(***************************************************************************)
(* Bounds of the model.                                                    *)
(***************************************************************************)
\* number of words of the loaded image
ProgLen == 2
\* number of instructions the interpreter loop executes
MaxSteps == 4
\* number of characters typed on the terminal
MaxKeys == 1

(***************************************************************************)
(* Program constants.                                                      *)
(***************************************************************************)
R_R0 == 0
R_R7 == 7
R_PC == 8
R_COND == 9
R_COUNT == 10

OP_BR == 0
OP_ADD == 1
OP_LD == 2
OP_ST == 3
OP_JSR == 4
OP_AND == 5
OP_LDR == 6
OP_STR == 7
OP_RTI == 8
OP_NOT == 9
OP_LDI == 10
OP_STI == 11
OP_JMP == 12
OP_RES == 13
OP_LEA == 14
OP_TRAP == 15

FL_POS == 1
FL_ZRO == 2
FL_NEG == 4

\* UINT16_MAX: the number of elements of the array `memory`
UINT16_MAX == 65535
PC_START == 12288

\* memory mapped registers (0xFE00, 0xFE02) and trap vectors: used by
\* src/lc3.c but not declared there; values from spec.md sections 3 and 4.3
MR_KBSR == 65024
MR_KBDR == 65026
TRAP_GETC == 32
TRAP_OUT == 33
TRAP_PUTS == 34
TRAP_IN == 35
TRAP_PUTSP == 36
TRAP_HALT == 37

(***************************************************************************)
(* 16-bit arithmetic and the C bit operators.                              *)
(***************************************************************************)
Pow2(n) == 2 ^ n

\* conversion of an int to uint16_t
U16(v) == v % Pow2(16)

\* x >> n
Shr(x, n) == x \div Pow2(n)

\* x << n (as an int, before any conversion)
Shl(x, n) == x * Pow2(n)

RECURSIVE BitAnd(_, _)
\* a & b on non-negative integers
BitAnd(a, b) ==
    IF a = 0 \/ b = 0 THEN 0
    ELSE (a % 2) * (b % 2) + 2 * BitAnd(a \div 2, b \div 2)

RECURSIVE BitOr(_, _)
\* a | b on non-negative integers
BitOr(a, b) ==
    IF a = 0 THEN b
    ELSE IF b = 0 THEN a
    ELSE (IF a % 2 = 1 \/ b % 2 = 1 THEN 1 ELSE 0) + 2 * BitOr(a \div 2, b \div 2)

\* ~x of a uint16_t promoted to int, converted back to uint16_t
BitNot16(x) == U16(-x - 1)

\* the value of a 16-bit word read as a two's-complement number
Signed16(x) == IF x >= Pow2(15) THEN x - Pow2(16) ELSE x

\* sign_extend testing bit bit_count instead of bit bit_count - 1
sign_extend_bit(x, bit_count) ==
    IF BitAnd(Shr(x, bit_count), 1) # 0
    THEN U16(BitOr(x, Shl(65535, bit_count)))
    ELSE x

sign_extend(x, bit_count) ==
    IF BitAnd(Shr(x, bit_count - 1), 1) # 0
    THEN U16(BitOr(x, Shl(65535, bit_count)))
    ELSE x

swap16(x) == U16(BitOr(Shl(x, 8), Shr(x, 8)))

(***************************************************************************)
(* The machine state the handlers work on, as one record:                  *)
(*   reg      the array reg[R_COUNT]                                       *)
(*   memory   the array memory[], kept as the finite map of its non-zero   *)
(*            cells (the array is zero-initialised static storage)         *)
(*   stdin    the characters typed and not yet read                        *)
(*   out      the characters written to the terminal                       *)
(*   running  the loop variable of main                                    *)
(*   fail     set when the machine stops on a decode error                 *)
(*   layout   what the linker placed right after the array memory          *)
(*   oob      set when an access used index UINT16_MAX, one past the last  *)
(*            element of memory[UINT16_MAX]                                *)
(***************************************************************************)
Layouts == {"pad", "reg"}

\* memory[a] for an index inside the array
Stored(mem, a) == IF a \in DOMAIN mem THEN mem[a] ELSE 0

\* mem with cell a set to v (zero cells are not kept in the map)
Store(mem, a, v) ==
    LET d == IF v = 0 THEN DOMAIN mem \ {a} ELSE DOMAIN mem \cup {a}
    IN  [x \in d |-> IF x = a THEN v ELSE mem[x]]

\* the object memory[a] denotes.  Index UINT16_MAX is one past the end of
\* the array: it denotes either unused storage after the array ("pad") or
\* the first element of the next object, reg[R_R0] ("reg").
Cell(s, a) ==
    IF a >= UINT16_MAX /\ s.layout = "reg" THEN s.reg[R_R0]
    ELSE Stored(s.memory, a)

SetCell(s, a, v) ==
    IF a >= UINT16_MAX /\ s.layout = "reg"
    THEN [s EXCEPT !.reg[R_R0] = v, !.oob = TRUE]
    ELSE [s EXCEPT !.memory = Store(s.memory, a, v),
                   !.oob = s.oob \/ a >= UINT16_MAX]

\* update_flags without the test of the sign bit
update_flags_unsigned(s, r) ==
    [s EXCEPT !.reg[R_COND] = IF s.reg[r] = 0 THEN FL_ZRO ELSE FL_POS]

update_flags(s, r) ==
    IF s.reg[r] = 0
    THEN [s EXCEPT !.reg[R_COND] = FL_ZRO]
    ELSE IF Shr(s.reg[r], 15) # 0
         THEN [s EXCEPT !.reg[R_COND] = FL_NEG]
         ELSE [s EXCEPT !.reg[R_COND] = FL_POS]

\* select() on the terminal: a character is pending
check_key(s) == s.stdin # << >>

mem_write(s, address, val) == SetCell(s, address, val)

\* mem_read that leaves the status register as it is when no key is pending
mem_read_stale(s, address) ==
    IF address = MR_KBSR
    THEN IF check_key(s)
         THEN [s EXCEPT !.memory = Store(Store(s.memory, MR_KBSR, Shl(1, 15)),
                                         MR_KBDR, U16(Head(s.stdin))),
                        !.stdin = Tail(s.stdin)]
         ELSE s
    ELSE [s EXCEPT !.oob = s.oob \/ address >= UINT16_MAX]

\* the state after mem_read(address); the value it returns is
\* mem_read_val(s, address)
mem_read(s, address) ==
    IF address = MR_KBSR
    THEN IF check_key(s)
         THEN [s EXCEPT !.memory = Store(Store(s.memory, MR_KBSR, Shl(1, 15)),
                                         MR_KBDR, U16(Head(s.stdin))),
                        !.stdin = Tail(s.stdin)]
         ELSE [s EXCEPT !.memory = Store(s.memory, MR_KBSR, 0)]
    ELSE [s EXCEPT !.oob = s.oob \/ address >= UINT16_MAX]

mem_read_val(s, address) == Cell(mem_read(s, address), address)

(***************************************************************************)
(* Decoding: the fields of an instruction word.                            *)
(***************************************************************************)
Opcode(instr) == Shr(instr, 12)
FieldDR(instr) == BitAnd(Shr(instr, 9), 7)
FieldSR1(instr) == BitAnd(Shr(instr, 6), 7)
FieldSR2(instr) == BitAnd(instr, 7)
ImmFlag(instr) == BitAnd(Shr(instr, 5), 1)
Imm5(instr) == sign_extend(BitAnd(instr, 31), 5)
Offset6(instr) == sign_extend(BitAnd(instr, 63), 6)
PcOffset9(instr) == sign_extend(BitAnd(instr, 511), 9)
PcOffset11(instr) == sign_extend(BitAnd(instr, 2047), 11)
LongFlag(instr) == BitAnd(Shr(instr, 11), 1)
TrapVect8(instr) == BitAnd(instr, 255)

(***************************************************************************)
(* The opcode handlers of main's switch that src/lc3.c implements.         *)
(* Each maps the machine state after the fetch to the state after the      *)
(* instruction; reg[R_PC] already points past the instruction.             *)
(***************************************************************************)
\* ADD that saturates at 0xFFFF instead of wrapping
op_ADD_sat(s, instr) ==
    LET r0 == FieldDR(instr)
        r1 == FieldSR1(instr)
        b  == IF ImmFlag(instr) # 0 THEN Imm5(instr) ELSE s.reg[FieldSR2(instr)]
        v  == IF s.reg[r1] + b > 65535 THEN 65535 ELSE s.reg[r1] + b
    IN  update_flags([s EXCEPT !.reg[r0] = v], r0)

\* ADD whose immediate is not sign-extended
op_ADD_zext(s, instr) ==
    LET r0 == FieldDR(instr)
        r1 == FieldSR1(instr)
    IN  IF ImmFlag(instr) # 0
        THEN update_flags([s EXCEPT !.reg[r0] = U16(s.reg[r1] + BitAnd(instr, 31))], r0)
        ELSE update_flags(
               [s EXCEPT !.reg[r0] = U16(s.reg[r1] + s.reg[FieldSR2(instr)])], r0)

op_ADD(s, instr) ==
    LET r0 == FieldDR(instr)
        r1 == FieldSR1(instr)
    IN  IF ImmFlag(instr) # 0
        THEN update_flags([s EXCEPT !.reg[r0] = U16(s.reg[r1] + Imm5(instr))], r0)
        ELSE update_flags(
               [s EXCEPT !.reg[r0] = U16(s.reg[r1] + s.reg[FieldSR2(instr)])], r0)

\* AND that leaves its result in the first operand register as well
op_AND_inplace(s, instr) ==
    LET r0 == FieldDR(instr)
        r1 == FieldSR1(instr)
        v  == IF ImmFlag(instr) # 0
              THEN BitAnd(s.reg[r1], Imm5(instr))
              ELSE BitAnd(s.reg[r1], s.reg[FieldSR2(instr)])
    IN  update_flags([s EXCEPT !.reg[r1] = v, !.reg[r0] = v], r0)

\* line 262 reads imm_5, an identifier declared nowhere; it is read as the
\* imm5 declared on the line before
op_AND(s, instr) ==
    LET r0 == FieldDR(instr)
        r1 == FieldSR1(instr)
    IN  IF ImmFlag(instr) # 0
        THEN update_flags([s EXCEPT !.reg[r0] = BitAnd(s.reg[r1], Imm5(instr))], r0)
        ELSE update_flags(
               [s EXCEPT !.reg[r0] = BitAnd(s.reg[r1], s.reg[FieldSR2(instr)])], r0)

op_NOT(s, instr) ==
    LET r0 == FieldDR(instr)
        r1 == FieldSR1(instr)
    IN  update_flags([s EXCEPT !.reg[r0] = BitNot16(s.reg[r1])], r0)

\* BR that also calls update_flags on its bits 11..9, as the handlers above do
op_BR_flags(s, instr) ==
    LET pc_offset == PcOffset9(instr)
        cond_flag == FieldDR(instr)
    IN  IF BitAnd(cond_flag, s.reg[R_COND]) # 0
        THEN update_flags([s EXCEPT !.reg[R_PC] = U16(s.reg[R_PC] + pc_offset)],
                          cond_flag)
        ELSE update_flags(s, cond_flag)

\* BR that adds the offset to the address of the BR itself
op_BR_noinc(s, instr) ==
    LET pc_offset == PcOffset9(instr)
        cond_flag == FieldDR(instr)
    IN  IF BitAnd(cond_flag, s.reg[R_COND]) # 0
        THEN [s EXCEPT !.reg[R_PC] = U16(s.reg[R_PC] - 1 + pc_offset)]
        ELSE s

op_BR(s, instr) ==
    LET pc_offset == PcOffset9(instr)
        cond_flag == FieldDR(instr)
    IN  IF BitAnd(cond_flag, s.reg[R_COND]) # 0
        THEN [s EXCEPT !.reg[R_PC] = U16(s.reg[R_PC] + pc_offset)]
        ELSE s

op_JMP(s, instr) ==
    LET r1 == FieldSR1(instr)
    IN  [s EXCEPT !.reg[R_PC] = s.reg[r1]]

\* JSR that links the address of the JSR itself
op_JSR_link(s, instr) ==
    LET r1 == FieldSR1(instr)
        long_pc_offset == PcOffset11(instr)
        s1 == [s EXCEPT !.reg[R_R7] = U16(s.reg[R_PC] - 1)]
    IN  IF LongFlag(instr) # 0
        THEN [s1 EXCEPT !.reg[R_PC] = U16(s.reg[R_PC] + long_pc_offset)]
        ELSE [s1 EXCEPT !.reg[R_PC] = s1.reg[r1]]

op_JSR(s, instr) ==
    LET r1 == FieldSR1(instr)
        long_pc_offset == PcOffset11(instr)
        s1 == [s EXCEPT !.reg[R_R7] = s.reg[R_PC]]
    IN  IF LongFlag(instr) # 0
        THEN [s1 EXCEPT !.reg[R_PC] = U16(s1.reg[R_PC] + long_pc_offset)]
        ELSE [s1 EXCEPT !.reg[R_PC] = s1.reg[r1]]

(***************************************************************************)
(* The handlers src/lc3.c leaves as placeholders ({LD, 7} ... {TRAP, 8},   *)
(* {BAD OPCODE, 7}), from the table of spec.md section 4.2 and the trap    *)
(* list of section 4.3.                                                    *)
(***************************************************************************)
op_LD(s, instr) ==
    LET r0 == FieldDR(instr)
        a  == U16(s.reg[R_PC] + PcOffset9(instr))
        s1 == mem_read(s, a)
    IN  update_flags([s1 EXCEPT !.reg[r0] = Cell(s1, a)], r0)

op_LDI(s, instr) ==
    LET r0 == FieldDR(instr)
        a  == U16(s.reg[R_PC] + PcOffset9(instr))
        s1 == mem_read(s, a)
        b  == Cell(s1, a)
        s2 == mem_read(s1, b)
    IN  update_flags([s2 EXCEPT !.reg[r0] = Cell(s2, b)], r0)

op_LDR(s, instr) ==
    LET r0 == FieldDR(instr)
        a  == U16(s.reg[FieldSR1(instr)] + Offset6(instr))
        s1 == mem_read(s, a)
    IN  update_flags([s1 EXCEPT !.reg[r0] = Cell(s1, a)], r0)

op_LEA(s, instr) ==
    LET r0 == FieldDR(instr)
    IN  update_flags(
          [s EXCEPT !.reg[r0] = U16(s.reg[R_PC] + PcOffset9(instr))], r0)

op_ST(s, instr) ==
    mem_write(s, U16(s.reg[R_PC] + PcOffset9(instr)), s.reg[FieldDR(instr)])

op_STI(s, instr) ==
    LET a  == U16(s.reg[R_PC] + PcOffset9(instr))
        s1 == mem_read(s, a)
    IN  mem_write(s1, Cell(s1, a), s1.reg[FieldDR(instr)])

op_STR(s, instr) ==
    mem_write(s, U16(s.reg[FieldSR1(instr)] + Offset6(instr)),
              s.reg[FieldDR(instr)])

\* what the prompt of TRAP IN writes, as one item of the output
PromptMark == 256

RECURSIVE PutsChars(_, _)
\* the characters TRAP PUTS writes for the string at address a
PutsChars(s, a) ==
    IF a > UINT16_MAX \/ Cell(s, a) = 0 THEN << >>
    ELSE << BitAnd(Cell(s, a), 255) >> \o PutsChars(s, a + 1)

RECURSIVE PutspChars(_, _)
\* the characters TRAP PUTSP writes: low byte, then high byte if non-zero
PutspChars(s, a) ==
    IF a > UINT16_MAX \/ Cell(s, a) = 0 THEN << >>
    ELSE LET lo == BitAnd(Cell(s, a), 255)
             hi == Shr(Cell(s, a), 8)
         IN  (IF hi # 0 THEN << lo, hi >> ELSE << lo >>) \o PutspChars(s, a + 1)

RECURSIVE StringEnd(_, _)
\* the address of the word that ends the string at address a
StringEnd(s, a) ==
    IF a >= UINT16_MAX \/ Cell(s, a) = 0 THEN a ELSE StringEnd(s, a + 1)

bad_opcode(s) == [s EXCEPT !.running = FALSE, !.fail = TRUE]

trap_GETC(s) ==
    [s EXCEPT !.reg[R_R0] = U16(Head(s.stdin)), !.stdin = Tail(s.stdin)]

trap_OUT(s) == [s EXCEPT !.out = Append(s.out, BitAnd(s.reg[R_R0], 255))]

trap_PUTS(s) ==
    [s EXCEPT !.out = s.out \o PutsChars(s, s.reg[R_R0]),
              !.oob = s.oob \/ StringEnd(s, s.reg[R_R0]) >= UINT16_MAX]

trap_IN(s) ==
    [s EXCEPT !.out = s.out \o << PromptMark, Head(s.stdin) >>,
              !.reg[R_R0] = U16(Head(s.stdin)),
              !.stdin = Tail(s.stdin)]

trap_PUTSP(s) ==
    [s EXCEPT !.out = s.out \o PutspChars(s, s.reg[R_R0]),
              !.oob = s.oob \/ StringEnd(s, s.reg[R_R0]) >= UINT16_MAX]

trap_HALT(s) == [s EXCEPT !.running = FALSE]

op_TRAP(s, instr) ==
    LET s1 == [s EXCEPT !.reg[R_R7] = s.reg[R_PC]]
        v  == TrapVect8(instr)
    IN  CASE v = TRAP_GETC  -> trap_GETC(s1)
          [] v = TRAP_OUT   -> trap_OUT(s1)
          [] v = TRAP_PUTS  -> trap_PUTS(s1)
          [] v = TRAP_IN    -> trap_IN(s1)
          [] v = TRAP_PUTSP -> trap_PUTSP(s1)
          [] v = TRAP_HALT  -> trap_HALT(s1)
          [] OTHER          -> bad_opcode(s1)

\* GETC and IN wait for a character: the instruction cannot complete while
\* none is pending
Blocks(s, instr) ==
    /\ Opcode(instr) = OP_TRAP
    /\ TrapVect8(instr) \in {TRAP_GETC, TRAP_IN}
    /\ s.stdin = << >>

(***************************************************************************)
(* main's switch (op), and one iteration of its loop.                      *)
(***************************************************************************)
\* the switch with RTI and RES falling out of it without a handler
execute_skip(s, instr) ==
    LET op == Opcode(instr)
    IN  CASE op = OP_ADD  -> op_ADD(s, instr)
          [] op = OP_AND  -> op_AND(s, instr)
          [] op = OP_NOT  -> op_NOT(s, instr)
          [] op = OP_BR   -> op_BR(s, instr)
          [] op = OP_JMP  -> op_JMP(s, instr)
          [] op = OP_JSR  -> op_JSR(s, instr)
          [] op = OP_LD   -> op_LD(s, instr)
          [] op = OP_LDI  -> op_LDI(s, instr)
          [] op = OP_LDR  -> op_LDR(s, instr)
          [] op = OP_LEA  -> op_LEA(s, instr)
          [] op = OP_ST   -> op_ST(s, instr)
          [] op = OP_STI  -> op_STI(s, instr)
          [] op = OP_STR  -> op_STR(s, instr)
          [] op = OP_TRAP -> op_TRAP(s, instr)
          [] OTHER        -> s

execute(s, instr) ==
    LET op == Opcode(instr)
    IN  CASE op = OP_ADD  -> op_ADD(s, instr)
          [] op = OP_AND  -> op_AND(s, instr)
          [] op = OP_NOT  -> op_NOT(s, instr)
          [] op = OP_BR   -> op_BR(s, instr)
          [] op = OP_JMP  -> op_JMP(s, instr)
          [] op = OP_JSR  -> op_JSR(s, instr)
          [] op = OP_LD   -> op_LD(s, instr)
          [] op = OP_LDI  -> op_LDI(s, instr)
          [] op = OP_LDR  -> op_LDR(s, instr)
          [] op = OP_LEA  -> op_LEA(s, instr)
          [] op = OP_ST   -> op_ST(s, instr)
          [] op = OP_STI  -> op_STI(s, instr)
          [] op = OP_STR  -> op_STR(s, instr)
          [] op = OP_TRAP -> op_TRAP(s, instr)
          [] OTHER        -> bad_opcode(s)

\* a fetch that leaves reg[R_PC] on the instruction
fetch_noinc(s) == mem_read(s, s.reg[R_PC])

\* instr = mem_read(reg[R_PC]++): the state once the word is fetched
fetch(s) ==
    mem_read([s EXCEPT !.reg[R_PC] = U16(s.reg[R_PC] + 1)], s.reg[R_PC])

\* the word fetched
fetched(s) == Cell(fetch(s), s.reg[R_PC])

\* one iteration of the loop body
step(s) == execute(fetch(s), fetched(s))

(***************************************************************************)
(* Instruction words, as an assembler would encode them.                   *)
(***************************************************************************)
EncADDi(dr, sr1, imm5) == Shl(OP_ADD, 12) + Shl(dr, 9) + Shl(sr1, 6) + 32 + imm5
EncADDr(dr, sr1, sr2) == Shl(OP_ADD, 12) + Shl(dr, 9) + Shl(sr1, 6) + sr2
EncANDi(dr, sr1, imm5) == Shl(OP_AND, 12) + Shl(dr, 9) + Shl(sr1, 6) + 32 + imm5
EncANDr(dr, sr1, sr2) == Shl(OP_AND, 12) + Shl(dr, 9) + Shl(sr1, 6) + sr2
EncNOT(dr, sr) == Shl(OP_NOT, 12) + Shl(dr, 9) + Shl(sr, 6) + 63
EncBR(nzp, off9) == Shl(OP_BR, 12) + Shl(nzp, 9) + off9
EncJMP(base) == Shl(OP_JMP, 12) + Shl(base, 6)
EncJSR(off11) == Shl(OP_JSR, 12) + 2048 + off11
EncJSRR(base) == Shl(OP_JSR, 12) + Shl(base, 6)
EncLD(dr, off9) == Shl(OP_LD, 12) + Shl(dr, 9) + off9
EncLDI(dr, off9) == Shl(OP_LDI, 12) + Shl(dr, 9) + off9
EncLDR(dr, base, off6) == Shl(OP_LDR, 12) + Shl(dr, 9) + Shl(base, 6) + off6
EncLEA(dr, off9) == Shl(OP_LEA, 12) + Shl(dr, 9) + off9
EncST(sr, off9) == Shl(OP_ST, 12) + Shl(sr, 9) + off9
EncSTI(sr, off9) == Shl(OP_STI, 12) + Shl(sr, 9) + off9
EncSTR(sr, base, off6) == Shl(OP_STR, 12) + Shl(sr, 9) + Shl(base, 6) + off6
EncTRAP(vect) == Shl(OP_TRAP, 12) + vect

\* the words the enumerated images are made of: every opcode, both modes
\* of ADD, AND and JSR, offsets of both signs, a trap that reads, the HALT
\* trap, and the address of the keyboard status register (as an
\* instruction, a TRAP with an unknown vector)
Words ==
    { EncADDi(0, 0, 31), EncADDi(0, 0, 1), EncADDr(1, 1, 0),
      EncANDi(0, 0, 0), EncANDi(1, 0, 21), EncANDr(2, 1, 0), EncNOT(0, 0),
      EncBR(2, 1), EncBR(4, 511), EncBR(0, 1),
      EncJMP(7), EncJMP(0),
      EncJSR(0), EncJSRR(7), EncJSRR(0),
      EncLD(1, 511), EncLDI(1, 0), EncLDR(1, 0, 1), EncLEA(0, 509),
      EncST(0, 0), EncSTI(0, 0), EncSTR(0, 0, 63),
      EncTRAP(TRAP_GETC), EncTRAP(TRAP_HALT),
      Shl(OP_RTI, 12), Shl(OP_RES, 12), MR_KBSR }

\* longer programs, loaded besides the enumerated ones
Scenarios ==
    { \* R0 = -1, R1 = 5, then AND and ADD in register mode (the sum carries)
      << EncADDi(0, 0, 31), EncADDi(1, 1, 5), EncANDr(2, 1, 0), EncADDr(3, 1, 0) >>,
      \* store R0 = 1 and load it back from the same address
      << EncADDi(0, 0, 1), EncST(0, 1), EncLD(1, 0) >>,
      \* call over one word, return, run the word skipped
      << EncJSR(1), EncNOT(2, 2), EncJMP(7) >>,
      \* branch on Z over a word, call backwards to it, return
      << EncANDi(1, 0, 21), EncBR(2, 1), EncJMP(7), EncJSR(2046) >>,
      \* poll the keyboard status register through a pointer, then halt
      << EncLDI(1, 1), EncTRAP(TRAP_HALT), MR_KBSR >>,
      \* write the string "HI" and halt
      << EncLEA(0, 2), EncTRAP(TRAP_PUTS), EncTRAP(TRAP_HALT), 72, 73 >>,
      \* write the packed string "HI" and one character, then halt
      << EncLEA(0, 3), EncTRAP(TRAP_PUTSP), EncTRAP(TRAP_OUT), EncTRAP(TRAP_HALT),
         72 + Shl(73, 8) >>,
      \* prompt for a character and halt
      << EncTRAP(TRAP_IN), EncTRAP(TRAP_HALT) >>,
      \* a zero result, then a branch on Z over one word
      << EncANDi(0, 0, 0), EncBR(2, 2), EncTRAP(TRAP_HALT) >>,
      \* poll the keyboard status register twice
      << EncLDI(1, 1), EncLDI(2, 0), MR_KBSR >>,
      \* jump to the keyboard status register: the fetch polls it
      << EncLD(0, 1), EncJMP(0), MR_KBSR >> }

\* the images the machine is started on
Images == [1 .. ProgLen -> Words] \cup Scenarios

\* an image file: the origin it names and the words that follow it
ImageFile(origin, words) == [origin |-> origin, words |-> words]

\* command lines that name two image files, the second loaded away from
\* PC_START
Overlaid ==
    { \* jump to 0xFDFE; there, store R1 to 0xFE00 and load it back
      << ImageFile(PC_START, << EncLD(1, 1), EncJMP(1), 65022 >>),
         ImageFile(65022, << EncST(1, 1), EncLD(2, 0) >>) >>,
      \* jump to 0; there, store R1 to 0xFFFF, add 1 to R0, load from 0xFFFF
      << ImageFile(PC_START, << EncJMP(0) >>),
         ImageFile(0, << EncST(1, 510), EncADDi(0, 0, 1), EncLD(2, 508) >>) >>,
      \* jump to 0; there, take the address three words back
      << ImageFile(PC_START, << EncJMP(0) >>),
         ImageFile(0, << EncLEA(1, 509) >>) >> }

\* the image files main is started on, in the order of the command line
CommandLines == { << ImageFile(PC_START, prog) >> : prog \in Images } \cup Overlaid

\* the characters that may be typed
Chars == {72}

(***************************************************************************)
(* The state of the process.                                               *)
(***************************************************************************)
VARIABLES
    reg,          \* uint16_t reg[R_COUNT]
    memory,       \* uint16_t memory[UINT16_MAX], as the map of its non-zero cells
    running,      \* int running, of main
    instr,        \* uint16_t instr, of main: the word last fetched
    fail,         \* the machine stopped on a decode error
    stdin,        \* characters typed and not yet read
    out,          \* characters written
    keys,         \* number of characters typed so far
    layout,       \* what lies right after memory[]: unknown until first used
    oob,          \* an access used index UINT16_MAX
    pc,           \* where main is: boot, installed, loop, restored, exited
    tio,          \* the terminal's configuration
    original_tio, \* struct termios original_tio
    restores,     \* number of calls of restore_input_buffering
    exit_code,    \* the exit status of the process, "none" while it runs
    hist,         \* per executed instruction: the state before it (registers,
                  \* memory, input pending, output, keys typed) and the word
    se            \* a call of sign_extend: its arguments and its result

vars == << reg, memory, running, instr, fail, stdin, out, keys, layout, oob,
           pc, tio, original_tio, restores, exit_code, hist, se >>

\* the machine record of the current state, under layout l
Machine(l) ==
    [ reg |-> reg, memory |-> memory, stdin |-> stdin, out |-> out,
      running |-> running, fail |-> fail, layout |-> l, oob |-> FALSE ]

\* the file of an image holds its words big-endian; fread on the host
\* delivers each with its bytes swapped
FileWords(prog) == [i \in DOMAIN prog |-> swap16(prog[i])]

RECURSIVE LoadWords(_, _, _, _)
LoadWords(mem, p, raw, i) ==
    IF i > Len(raw) \/ p >= UINT16_MAX THEN mem
    ELSE LoadWords(Store(mem, p, swap16(raw[i])), p + 1, raw, i + 1)

\* memory after read_image_file of a file with the given origin and words
read_image_file(mem, origin, raw) == LoadWords(mem, swap16(origin), raw, 1)

RECURSIVE LoadImages(_, _, _)
\* memory after main has read the image files from the j-th on
LoadImages(mem, files, j) ==
    IF j > Len(files) THEN mem
    ELSE LoadImages(read_image_file(mem, swap16(files[j].origin),
                                    FileWords(files[j].words)),
                    files, j + 1)

\* the process at the start of main, before any image is loaded
InitProcess ==
    /\ reg = [r \in 0 .. (R_COUNT - 1) |-> 0]
    /\ running = TRUE
    /\ instr = 0
    /\ fail = FALSE
    /\ stdin = << >>
    /\ out = << >>
    /\ keys = 0
    /\ layout = "unknown"
    /\ oob = FALSE
    /\ pc = "boot"
    /\ tio = "cooked"
    /\ original_tio = "zero"
    /\ restores = 0
    /\ exit_code = "none"
    /\ hist = << >>

Init ==
    /\ InitProcess
    /\ \E files \in CommandLines : memory = LoadImages(<< >>, files, 1)
    /\ se = [bit_count |-> 5, x |-> 0, result |-> 0, done |-> FALSE]

\* signal(SIGINT, handle_interrupt)
InstallHandler ==
    /\ pc = "boot"
    /\ pc' = "installed"
    /\ UNCHANGED << reg, memory, running, instr, fail, stdin, out, keys, layout,
                    oob, tio, original_tio, restores, exit_code, hist, se >>

\* disable_input_buffering(); reg[R_PC] = PC_START; running = 1
Setup ==
    /\ pc = "installed"
    /\ original_tio' = tio
    /\ tio' = "raw"
    /\ reg' = [reg EXCEPT ![R_PC] = PC_START]
    /\ running' = TRUE
    /\ pc' = "loop"
    /\ UNCHANGED << memory, instr, fail, stdin, out, keys, layout, oob,
                    restores, exit_code, hist, se >>

\* a loop that does not test running
LoopGuardAlways == TRUE

\* the loop condition of main
LoopGuard == running

\* one iteration of while (running): fetch, decode, execute
Step ==
    /\ pc = "loop"
    /\ LoopGuard
    /\ Len(hist) < MaxSteps
    /\ \E l \in (IF layout = "unknown" THEN Layouts ELSE {layout}) :
       \E s0 \in {Machine(l)} :
       \E f \in {fetch(s0)} :
       \E w \in {Cell(f, s0.reg[R_PC])} :
         /\ ~Blocks(f, w)
         /\ \E s1 \in {execute(f, w)} :
              /\ reg' = s1.reg
              /\ memory' = s1.memory
              /\ running' = s1.running
              /\ fail' = s1.fail
              /\ stdin' = s1.stdin
              /\ out' = s1.out
              /\ instr' = w
              /\ layout' = IF s1.oob THEN l ELSE layout
              /\ oob' = (oob \/ s1.oob)
              /\ hist' = Append(hist, [reg |-> reg, memory |-> memory,
                                       stdin |-> stdin, out |-> out,
                                       keys |-> keys, instr |-> w])
    /\ UNCHANGED << keys, pc, tio, original_tio, restores, exit_code, se >>

\* a character is typed on the terminal
KeyPress ==
    /\ pc = "loop"
    /\ running
    /\ keys < MaxKeys
    /\ \E c \in Chars : stdin' = Append(stdin, c)
    /\ keys' = keys + 1
    /\ UNCHANGED << reg, memory, running, instr, fail, out, layout, oob, pc,
                    tio, original_tio, restores, exit_code, hist, se >>

\* the loop has ended: restore_input_buffering()
Shutdown ==
    /\ pc = "loop"
    /\ ~LoopGuard
    /\ tio' = original_tio
    /\ restores' = restores + 1
    /\ pc' = "restored"
    /\ UNCHANGED << reg, memory, running, instr, fail, stdin, out, keys, layout,
                    oob, original_tio, exit_code, hist, se >>

\* main returns
Exit ==
    /\ pc = "restored"
    /\ exit_code' = IF fail THEN "error" ELSE "ok"
    /\ pc' = "exited"
    /\ UNCHANGED << reg, memory, running, instr, fail, stdin, out, keys, layout,
                    oob, tio, original_tio, restores, hist, se >>

\* SIGINT: handle_interrupt runs restore_input_buffering() and exit(-2)
handle_interrupt ==
    /\ pc \in {"installed", "loop", "restored"}
    /\ tio' = original_tio
    /\ restores' = restores + 1
    /\ exit_code' = "interrupted"
    /\ pc' = "exited"
    /\ UNCHANGED << reg, memory, running, instr, fail, stdin, out, keys, layout,
                    oob, original_tio, hist, se >>

Next ==
    \/ InstallHandler
    \/ Setup
    \/ Step
    \/ KeyPress
    \/ Shutdown
    \/ Exit
    \/ handle_interrupt

Spec == Init /\ [][Next]_vars

(***************************************************************************)
(* sign_extend on its own: every field width the decoder uses, with every  *)
(* value of a field of that width.                                         *)
(***************************************************************************)
Widths == {5, 6, 9, 11}

InitSE ==
    /\ InitProcess
    /\ memory = << >>
    /\ \E n \in Widths : \E x \in 0 .. (Pow2(n) - 1) :
         se = [bit_count |-> n, x |-> x, result |-> 0, done |-> FALSE]

CallSignExtend ==
    /\ ~se.done
    /\ se' = [se EXCEPT !.result = sign_extend(se.x, se.bit_count), !.done = TRUE]
    /\ UNCHANGED << reg, memory, running, instr, fail, stdin, out, keys, layout,
                    oob, pc, tio, original_tio, restores, exit_code, hist >>

NextSE == CallSignExtend

SpecSE == InitSE /\ [][NextSE]_vars

(***************************************************************************)
(* The last executed instruction, for stating properties of a step.        *)
(* hist holds, per instruction, the registers and memory before its fetch; *)
(* reg and memory hold what the instruction left (no other action writes   *)
(* them).                                                                  *)
(***************************************************************************)
Stepped == Len(hist) > 0
Pre == hist[Len(hist)]
\* the address the last instruction was fetched at
FetchAddr == Pre.reg[R_PC]
\* the machine once the last instruction was fetched, before its handler
PreFetched ==
    [ reg |-> [Pre.reg EXCEPT ![R_PC] = (FetchAddr + 1) % 65536],
      memory |-> Pre.memory, stdin |-> Pre.stdin, out |-> Pre.out,
      running |-> TRUE, fail |-> FALSE, layout |-> "pad", oob |-> FALSE ]

\* the fields of an instruction word and the value of an n-bit field as a
\* two's-complement number, by arithmetic (LC-3 instruction formats)
Bits(w, lo, n) == (w \div (2 ^ lo)) % (2 ^ n)
SignedField(x, n) == IF x >= 2 ^ (n - 1) THEN x - 2 ^ n ELSE x
DestOps == {OP_ADD, OP_AND, OP_NOT, OP_LD, OP_LDI, OP_LDR, OP_LEA}
OtherOps == {OP_BR, OP_JMP, OP_JSR, OP_ST, OP_STI, OP_STR, OP_TRAP}
Flags == {FL_NEG, FL_ZRO, FL_POS}
IsDecodeError(w) ==
    \/ Bits(w, 12, 4) \in {OP_RTI, OP_RES}
    \/ Bits(w, 12, 4) = OP_TRAP /\ Bits(w, 0, 8) \notin 32 .. 37
IsHalt(w) == Bits(w, 12, 4) = OP_TRAP /\ Bits(w, 0, 8) = 37

(***************************************************************************)
(* C1: after a step that executes ADD, AND, NOT, LD, LDI, LDR or LEA the   *)
(* condition register holds exactly one of N, Z, P, the one that matches   *)
(* the signed value of the destination register: Z iff it is 0, N iff its  *)
(* bit 15 is set, P otherwise.                                             *)
(***************************************************************************)
C1_FlagsMatchDest ==
    (Stepped /\ Bits(instr, 12, 4) \in DestOps) =>
        LET v == Signed16(reg[Bits(instr, 9, 3)])
        IN  /\ reg[R_COND] \in Flags
            /\ (reg[R_COND] = FL_ZRO) <=> (v = 0)
            /\ (reg[R_COND] = FL_NEG) <=> (v < 0)
            /\ (reg[R_COND] = FL_POS) <=> (v > 0)

\* an ADD has left a negative value, and the flags say N
C1_Witness ==
    /\ Stepped
    /\ Bits(instr, 12, 4) = OP_ADD
    /\ reg[Bits(instr, 9, 3)] = 65535
    /\ reg[R_COND] = FL_NEG

(***************************************************************************)
(* C2: in every reachable state, from the initial one on, the condition    *)
(* register holds exactly one of N, Z, P: never 0, never two flags.        *)
(***************************************************************************)
C2_FlagsOneHot == (pc = "loop") => reg[R_COND] \in Flags

(***************************************************************************)
(* C3: a step that executes BR, JMP, JSR/JSRR, ST, STI, STR or TRAP leaves *)
(* the condition register as it was before the step.                       *)
(***************************************************************************)
C3_FlagsKept ==
    (Stepped /\ Bits(instr, 12, 4) \in OtherOps) =>
        reg[R_COND] = Pre.reg[R_COND]

\* a BR on Z was taken, and the flags are still Z
C3_Witness ==
    /\ Stepped
    /\ Bits(instr, 12, 4) = OP_BR
    /\ reg[R_PC] # (FetchAddr + 1) % 65536
    /\ Pre.reg[R_COND] = FL_ZRO
    /\ reg[R_COND] = FL_ZRO

(***************************************************************************)
(* C4: for n in {5, 6, 9, 11} and every n-bit x, sign_extend(x, n) read as *)
(* a 16-bit two's-complement number is the value of x as an n-bit          *)
(* two's-complement number: x when bit n-1 is clear, x - 2^n when set.     *)
(***************************************************************************)
C4_SignExtend ==
    se.done =>
        /\ se.result \in 0 .. 65535
        /\ Signed16(se.result) =
             IF Bits(se.x, se.bit_count - 1, 1) = 1
             THEN se.x - 2 ^ se.bit_count
             ELSE se.x

\* a 9-bit field with its sign bit set has been extended
C4_Witness ==
    /\ se.done
    /\ se.bit_count = 9
    /\ se.x = 384
    /\ se.result = 65408

(***************************************************************************)
(* C5: a step executing ADD fetched at A sets DR to (SR1 + operand) mod    *)
(* 2^16, operand being SR2 or the sign-extended imm5, sets PC to (A + 1)   *)
(* mod 2^16, and leaves the machine running, also when the sum overflows.  *)
(***************************************************************************)
AddOperand(w, r) ==
    IF Bits(w, 5, 1) = 1 THEN SignedField(Bits(w, 0, 5), 5) ELSE r[Bits(w, 0, 3)]

C5_AddWraps ==
    (Stepped /\ Bits(instr, 12, 4) = OP_ADD) =>
        /\ reg[Bits(instr, 9, 3)] =
             (Pre.reg[Bits(instr, 6, 3)] + AddOperand(instr, Pre.reg)) % 65536
        /\ reg[R_PC] = (FetchAddr + 1) % 65536
        /\ running
        /\ ~fail

\* a register-mode ADD whose sum does not fit 16 bits
C5_Witness ==
    /\ Stepped
    /\ Bits(instr, 12, 4) = OP_ADD
    /\ Bits(instr, 5, 1) = 0
    /\ Pre.reg[Bits(instr, 6, 3)] + AddOperand(instr, Pre.reg) > 65535
    /\ reg[Bits(instr, 9, 3)] = 4
    /\ running

(***************************************************************************)
(* C6: for ADD and for AND, the immediate-mode instruction with immediate  *)
(* v gives the same destination value, flags and PC as the register-mode   *)
(* instruction with an SR2, distinct from SR1, that holds the 16-bit sign  *)
(* extension of v.  Stated of every executed ADD or AND: an immediate-mode *)
(* one against the register-mode one run from the same state with SR2 set, *)
(* a register-mode one whose SR2 holds such a value against the            *)
(* immediate-mode one.                                                     *)
(***************************************************************************)
SameOutcome(s, dr) ==
    /\ s.reg[dr] = reg[dr]
    /\ s.reg[R_COND] = reg[R_COND]
    /\ s.reg[R_PC] = reg[R_PC]

C6_ImmediateAsRegister ==
    (Stepped /\ Bits(instr, 12, 4) \in {OP_ADD, OP_AND}) =>
        LET dr  == Bits(instr, 9, 3)
            sr1 == Bits(instr, 6, 3)
            op  == Bits(instr, 12, 4)
        IN  IF Bits(instr, 5, 1) = 1
            THEN \A sr2 \in (0 .. 7) \ {sr1} :
                   SameOutcome(
                     execute([PreFetched EXCEPT
                                !.reg[sr2] = SignedField(Bits(instr, 0, 5), 5) % 65536],
                             op * 4096 + dr * 512 + sr1 * 64 + sr2),
                     dr)
            ELSE \A v \in 0 .. 31 :
                   (/\ Bits(instr, 0, 3) # sr1
                    /\ Pre.reg[Bits(instr, 0, 3)] = SignedField(v, 5) % 65536)
                   => SameOutcome(
                        execute(PreFetched, op * 4096 + dr * 512 + sr1 * 64 + 32 + v),
                        dr)

\* a register-mode AND whose SR2 holds -1 and whose SR1 holds 5
C6_Witness ==
    /\ Stepped
    /\ Bits(instr, 12, 4) = OP_AND
    /\ Bits(instr, 5, 1) = 0
    /\ Bits(instr, 0, 3) # Bits(instr, 6, 3)
    /\ Pre.reg[Bits(instr, 0, 3)] = 65535
    /\ reg[Bits(instr, 9, 3)] = 5

(***************************************************************************)
(* C7: a step executing BR fetched at A with mask m and offset field o     *)
(* sets PC to (A + 1 + sign_extend(o, 9)) mod 2^16 if m AND the flags is   *)
(* non-zero, and to (A + 1) mod 2^16 otherwise; after an instruction that  *)
(* stored 0 in its destination register a BR with Z in its mask is taken,  *)
(* and a BR with mask 0 is never taken.                                    *)
(***************************************************************************)
BrTarget(w, a) == (a + 1 + SignedField(Bits(w, 0, 9), 9)) % 65536
\* the flags (as bit positions 0 .. 2) that both the mask and the register hold
BrCommon(w, cond) == {b \in 0 .. 2 : Bits(w, 9 + b, 1) = 1 /\ Bits(cond, b, 1) = 1}
\* the step before the last one wrote a destination register, and left 0 in it
StoredZeroBefore ==
    /\ Len(hist) >= 2
    /\ Bits(hist[Len(hist) - 1].instr, 12, 4) \in DestOps
    /\ Pre.reg[Bits(hist[Len(hist) - 1].instr, 9, 3)] = 0

C7_Branch ==
    (Stepped /\ Bits(instr, 12, 4) = OP_BR) =>
        /\ reg[R_PC] = IF BrCommon(instr, Pre.reg[R_COND]) # {}
                       THEN BrTarget(instr, FetchAddr)
                       ELSE (FetchAddr + 1) % 65536
        /\ (StoredZeroBefore /\ Bits(instr, 10, 1) = 1)
             => reg[R_PC] = BrTarget(instr, FetchAddr)
        /\ (Bits(instr, 9, 3) = 0) => reg[R_PC] = (FetchAddr + 1) % 65536

\* AND stored 0, then a BR on Z with offset 2 skipped two words
C7_Witness ==
    /\ StoredZeroBefore
    /\ Bits(hist[Len(hist) - 1].instr, 12, 4) = OP_AND
    /\ Bits(instr, 12, 4) = OP_BR
    /\ Bits(instr, 9, 3) = 2
    /\ Bits(instr, 0, 9) = 2
    /\ reg[R_PC] = FetchAddr + 3

(***************************************************************************)
(* C8: JSR executed at A transfers control to T = A + 1 +                  *)
(* sign_extend(offset11) and sets R7 = A + 1; a JMP R7 executed later,     *)
(* R7 not having changed in between, leaves PC = A + 1 (all mod 2^16).     *)
(* Stated of every executed pair, and of a JSR with each of a set of       *)
(* offsets followed at once by JMP R7, run from every state of the loop    *)
(* in which no character has been typed (input plays no part in either).   *)
(***************************************************************************)
IsJsr(w) == Bits(w, 12, 4) = OP_JSR /\ Bits(w, 11, 1) = 1
IsRet(w) == Bits(w, 12, 4) = OP_JMP /\ Bits(w, 6, 3) = R_R7
\* the registers after instruction i
RegAfter(i) == IF i < Len(hist) THEN hist[i + 1].reg ELSE reg
Offsets11 == {1, 1023, 1024, 2047}
\* the machine once a word has been fetched from the current state
NowFetched ==
    [ reg |-> [reg EXCEPT ![R_PC] = (reg[R_PC] + 1) % 65536],
      memory |-> memory, stdin |-> stdin, out |-> out,
      running |-> TRUE, fail |-> FALSE, layout |-> "pad", oob |-> FALSE ]

C8_CallReturn ==
    /\ \A i \in 1 .. Len(hist) :
         IsJsr(hist[i].instr) =>
           LET a == hist[i].reg[R_PC]
           IN  /\ RegAfter(i)[R_R7] = (a + 1) % 65536
               /\ RegAfter(i)[R_PC] =
                    (a + 1 + SignedField(Bits(hist[i].instr, 0, 11), 11)) % 65536
               /\ (/\ i < Len(hist)
                   /\ IsRet(instr)
                   /\ \A k \in (i + 1) .. Len(hist) : hist[k].reg[R_R7] = RegAfter(i)[R_R7])
                  => reg[R_PC] = (a + 1) % 65536
    /\ (pc = "loop" /\ running /\ keys = 0) =>
         \A f \in {NowFetched} : \A o \in Offsets11 :
           \A called \in {op_JSR(f, OP_JSR * 4096 + 2048 + o)} :
             /\ called.reg[R_PC] = (reg[R_PC] + 1 + SignedField(o, 11)) % 65536
             /\ op_JMP([called EXCEPT !.reg[R_PC] = (@ + 1) % 65536],
                       OP_JMP * 4096 + R_R7 * 64).reg[R_PC]
                  = (reg[R_PC] + 1) % 65536

\* a JSR backwards, to a JMP R7 that has returned behind the JSR
C8_Witness ==
    /\ Len(hist) >= 2
    /\ IsJsr(hist[Len(hist) - 1].instr)
    /\ Bits(hist[Len(hist) - 1].instr, 0, 11) = 2046
    /\ IsRet(instr)
    /\ FetchAddr = hist[Len(hist) - 1].reg[R_PC] - 1
    /\ reg[R_PC] = hist[Len(hist) - 1].reg[R_PC] + 1

(***************************************************************************)
(* C9: once TRAP HALT has been executed the machine is halted, and halted  *)
(* is terminal: no instruction is fetched and registers, flags and memory  *)
(* never change again; and the loop stops on no instruction other than     *)
(* HALT or a decode error.                                                 *)
(***************************************************************************)
C9_HaltTerminal ==
    [][ /\ (~running) =>
             (/\ running' = running
              /\ reg' = reg
              /\ memory' = memory
              /\ instr' = instr
              /\ hist' = hist)
        /\ (hist' # hist /\ IsHalt(instr')) => (~running' /\ ~fail')
        /\ (running /\ ~running') =>
             (hist' # hist /\ (IsHalt(instr') \/ IsDecodeError(instr')))
      ]_vars

\* HALT has been executed, the loop has ended and main has returned
C9_Witness ==
    /\ Stepped
    /\ IsHalt(instr)
    /\ ~running
    /\ ~fail
    /\ pc = "exited"
    /\ exit_code = "ok"

(***************************************************************************)
(* C10: a step that fetches RTI, RES or a TRAP with a vector outside       *)
(* 0x20 .. 0x25 ends with the machine halted, with a failure outcome; no   *)
(* instruction is executed after it, and the process does not end with     *)
(* the status of a normal halt.                                            *)
(***************************************************************************)
C10_DecodeErrorHalts ==
    \A i \in 1 .. Len(hist) :
        IsDecodeError(hist[i].instr) =>
            /\ i = Len(hist)
            /\ ~running
            /\ fail
            /\ exit_code # "ok"

\* RTI has been executed and main has returned with the failure status
C10_Witness ==
    /\ Stepped
    /\ Bits(instr, 12, 4) = OP_RTI
    /\ ~running
    /\ fail
    /\ pc = "exited"
    /\ exit_code = "error"

(***************************************************************************)
(* C11: when a step stops the machine on a decode error (RTI, RES, a TRAP  *)
(* with an unrecognised vector), every register (R0-R7, PC, flags) and     *)
(* every memory cell has the value it had before the instruction was       *)
(* fetched: neither the increment of PC by the fetch nor the save of R7    *)
(* by TRAP is left behind.                                                 *)
(***************************************************************************)
C11_AtomicDecodeError ==
    (Stepped /\ IsDecodeError(instr) /\ ~running) =>
        /\ reg = Pre.reg
        /\ memory = Pre.memory

(***************************************************************************)
(* C12: every fetch, mem_read and mem_write uses an index inside the       *)
(* array memory, also at address 0xFFFF: no access is made at or beyond    *)
(* the number of elements the array is declared with.                      *)
(***************************************************************************)
C12_InBounds == ~oob

(***************************************************************************)
(* Stores and loads among the executed instructions.                       *)
(***************************************************************************)
\* the machine before instruction k was fetched.  The layout is the one
\* the run has met, if it has met one.
MachineAt(k) ==
    [ reg |-> hist[k].reg, memory |-> hist[k].memory, stdin |-> hist[k].stdin,
      out |-> hist[k].out, running |-> TRUE, fail |-> FALSE,
      layout |-> IF layout = "unknown" THEN "pad" ELSE layout, oob |-> FALSE ]
\* PC + sign-extended offset9 of instruction k, PC being past the instruction
EffAddr9(k) ==
    (hist[k].reg[R_PC] + 1 + SignedField(Bits(hist[k].instr, 0, 9), 9)) % 65536
\* the address instruction k writes with mem_write, -1 if it writes none
StoreAddr(k) ==
    LET w == hist[k].instr
    IN  CASE Bits(w, 12, 4) = OP_ST  -> EffAddr9(k)
          [] Bits(w, 12, 4) = OP_STR ->
               (hist[k].reg[Bits(w, 6, 3)] + SignedField(Bits(w, 0, 6), 6)) % 65536
          [] Bits(w, 12, 4) = OP_STI ->
               mem_read_val(fetch(MachineAt(k)), EffAddr9(k))
          [] OTHER -> -1
\* instruction i is an ST, the last instruction is an LD of the same
\* effective address a, and no instruction between them writes that address
StoreThenLoad(i, a) ==
    /\ i < Len(hist)
    /\ Bits(hist[i].instr, 12, 4) = OP_ST
    /\ Bits(instr, 12, 4) = OP_LD
    /\ EffAddr9(i) = a
    /\ EffAddr9(Len(hist)) = a
    /\ \A k \in (i + 1) .. (Len(hist) - 1) : StoreAddr(k) # a

(***************************************************************************)
(* C13: ST of a register holding v, then LD with the same effective        *)
(* address and no write to that address in between, loads exactly v into   *)
(* the destination register, whatever the effective address in             *)
(* 0x0000 .. 0xFFFF.                                                       *)
(***************************************************************************)
C13_StoreLoad ==
    \A i \in 1 .. Len(hist) :
        StoreThenLoad(i, EffAddr9(i)) =>
            reg[Bits(instr, 9, 3)] = hist[i].reg[Bits(hist[i].instr, 9, 3)]

(***************************************************************************)
(* C14: a step executing LEA fetched at A sets DR to                       *)
(* (A + 1 + sign_extend(offset9, 9)) mod 2^16: the address, computed from  *)
(* the PC already past the instruction, not the word stored at it.         *)
(***************************************************************************)
C14_Lea ==
    (Stepped /\ Bits(instr, 12, 4) = OP_LEA) =>
        reg[Bits(instr, 9, 3)] =
            (FetchAddr + 1 + SignedField(Bits(instr, 0, 9), 9)) % 65536

\* LEA with offset 2 has left the address of a cell that holds the letter H
C14_Witness ==
    /\ Stepped
    /\ Bits(instr, 12, 4) = OP_LEA
    /\ Bits(instr, 0, 9) = 2
    /\ reg[Bits(instr, 9, 3)] = FetchAddr + 3
    /\ Stored(memory, FetchAddr + 3) = 72

(***************************************************************************)
(* C15: a read of the keyboard status address polls the input without      *)
(* waiting.  With a character pending the status cell becomes 0x8000 and   *)
(* the character is moved into the keyboard data cell; with none pending   *)
(* the status cell becomes 0 and the data cell keeps its value.  The read  *)
(* returns the status cell as updated.  Stated of every step that reads    *)
(* the status address once: by its fetch, or by LD, LDR or LDI.            *)
(***************************************************************************)
\* the last step's fetch read the keyboard status register
FetchPolled == Stepped /\ FetchAddr = MR_KBSR
\* the last step was a load whose final read was of the status register
LoadPolled ==
    /\ Stepped
    /\ FetchAddr # MR_KBSR
    /\ LET op == Bits(instr, 12, 4)
           a9 == EffAddr9(Len(hist))
       IN  \/ op = OP_LD /\ a9 = MR_KBSR
           \/ op = OP_LDR /\
                (Pre.reg[Bits(instr, 6, 3)] + SignedField(Bits(instr, 0, 6), 6))
                  % 65536 = MR_KBSR
           \/ op = OP_LDI /\ a9 \notin {MR_KBSR, UINT16_MAX}
                /\ Stored(Pre.memory, a9) = MR_KBSR
\* what the poll of the last step returned
Polled == IF FetchPolled THEN instr ELSE reg[Bits(instr, 9, 3)]
\* the number of characters the last step took from the input (characters
\* typed since are behind those that were pending)
Consumed == (keys - Len(stdin)) - (Pre.keys - Len(Pre.stdin))

C15_KeyboardPoll ==
    (FetchPolled \/ LoadPolled) =>
        IF Pre.stdin # << >>
        THEN /\ Stored(memory, MR_KBSR) = 32768
             /\ Stored(memory, MR_KBDR) = Head(Pre.stdin)
             /\ Consumed = 1
             /\ SubSeq(stdin, 1, Len(Pre.stdin) - 1) = Tail(Pre.stdin)
             /\ Polled = 32768
        ELSE /\ Stored(memory, MR_KBSR) = 0
             /\ Stored(memory, MR_KBDR) = Stored(Pre.memory, MR_KBDR)
             /\ Consumed = 0
             /\ Polled = 0

\* a poll that found the character H, then a poll that found nothing: the
\* status is cleared and the data register still holds H
C15_Witness ==
    /\ Len(hist) = 2
    /\ LoadPolled
    /\ Pre.stdin = << >>
    /\ Stored(Pre.memory, MR_KBSR) = 32768
    /\ Stored(Pre.memory, MR_KBDR) = 72
    /\ Stored(memory, MR_KBSR) = 0
    /\ Stored(memory, MR_KBDR) = 72
    /\ reg[1] = 32768
    /\ reg[2] = 0

(***************************************************************************)
(* C16: reads and writes of addresses other than the keyboard status       *)
(* address are pure storage.  In every state of the loop, for an address   *)
(* a other than the status address: mem_read(a) changes no memory cell and *)
(* no register and consumes no input; it returns the value the last        *)
(* mem_write to a stored, or the loaded value if a was never written; and  *)
(* mem_write(a, v) changes the cell at a and nothing else.                 *)
(***************************************************************************)
\* the addresses looked at: the start of the image, the keyboard data
\* register, the last address, and the one the program counter holds
Addrs == {PC_START, MR_KBDR, 65535, reg[R_PC]} \ {MR_KBSR}
\* memory as loaded, before the first instruction
Loaded == IF Stepped THEN hist[1].memory ELSE memory
\* the instructions executed that wrote address a with mem_write
StoresTo(a) == {k \in 1 .. Len(hist) : StoreAddr(k) = a}
\* the value most recently written to a by mem_write, or else loaded
Written(a) ==
    IF StoresTo(a) = {} THEN Stored(Loaded, a)
    ELSE LET k == CHOOSE x \in StoresTo(a) : \A y \in StoresTo(a) : y <= x
         IN  hist[k].reg[Bits(hist[k].instr, 9, 3)]
\* the machine of the current state, under layout l
Now(l) ==
    [ reg |-> reg, memory |-> memory, stdin |-> stdin, out |-> out,
      running |-> TRUE, fail |-> FALSE, layout |-> l, oob |-> FALSE ]

C16_PureStorage ==
    (pc = "loop" /\ running) =>
        \A l \in (IF layout = "unknown" THEN Layouts ELSE {layout}) :
        \A m \in {Now(l)} :
        \A a \in Addrs :
            /\ mem_read(m, a).memory = memory
            /\ mem_read(m, a).reg = reg
            /\ mem_read(m, a).stdin = stdin
            /\ mem_read_val(m, a) = Written(a)
            /\ \A v \in {0, 72} :
               \A w \in {mem_write(m, a, v)} :
                 /\ Cell(w, a) = v
                 /\ w.reg = reg
                 /\ w.stdin = stdin
                 /\ \A b \in (DOMAIN memory \cup Addrs) \ {a} :
                      Cell(w, b) = Cell(m, b)

(***************************************************************************)
(* C17: on every exit taken after the terminal was switched to unbuffered  *)
(* mode (HALT, decode error, interrupt), the terminal configuration has    *)
(* been restored exactly once when the process exits: not skipped, not     *)
(* done twice, also when the interrupt arrives during shutdown.            *)
(***************************************************************************)
C17_RestoredOnce ==
    (pc = "exited" /\ original_tio # "zero") => restores = 1

(***************************************************************************)
(* C18: a step executing JSRR (JSR with bit 11 clear) fetched at A with    *)
(* base register Rb sets R7 to (A + 1) mod 2^16 and PC to the value Rb     *)
(* held before the instruction, for every Rb in R0 .. R7, R7 included.     *)
(***************************************************************************)
C18_Jsrr ==
    (Stepped /\ Bits(instr, 12, 4) = OP_JSR /\ Bits(instr, 11, 1) = 0) =>
        /\ reg[R_R7] = (FetchAddr + 1) % 65536
        /\ reg[R_PC] = Pre.reg[Bits(instr, 6, 3)]

(***************************************************************************)
(* C19: whenever the SIGINT handler has run, at any point after it was     *)
(* installed, the configuration it wrote to the terminal is the one the    *)
(* terminal had at startup, never the zero-initialised original_tio.       *)
(***************************************************************************)
C19_HandlerRestoresSaved ==
    (exit_code = "interrupted") => tio = "cooked"

(***************************************************************************)
(* C20: a step that executes ADD, AND or NOT changes at most the           *)
(* destination register, PC and the flags: every other general-purpose     *)
(* register keeps its value, every memory cell other than the two          *)
(* keyboard device cells keeps its value, and no memory cell changes at    *)
(* all unless the instruction was fetched from the keyboard status         *)
(* address.                                                                *)
(***************************************************************************)
C20_Frame ==
    (Stepped /\ Bits(instr, 12, 4) \in {OP_ADD, OP_AND, OP_NOT}) =>
        /\ \A r \in (0 .. 7) \ {Bits(instr, 9, 3)} : reg[r] = Pre.reg[r]
        /\ \A a \in (DOMAIN memory \cup DOMAIN Pre.memory) \ {MR_KBSR, MR_KBDR} :
             Stored(memory, a) = Stored(Pre.memory, a)
        /\ (FetchAddr # MR_KBSR) => memory = Pre.memory

\* AND R1,R0,#-11 has left R0 = 0xFFFF and the image as they were
C20_Witness ==
    /\ Stepped
    /\ Bits(instr, 12, 4) = OP_AND
    /\ Bits(instr, 9, 3) = 1
    /\ Pre.reg[0] = 65535
    /\ reg[0] = 65535
    /\ reg[1] = 65525
    /\ Pre.reg[1] = 0
    /\ memory = Pre.memory
    /\ memory # << >>

=============================================================================
